---------------------------- MODULE Spec2Model ----------------------------
(***************************************************************************)
(* Access gate of search-intel: IPv4 allow-list, HTTP Basic auth with a    *)
(* daily rotating password, the 09:00 password notifier and the server's   *)
(* middleware pipeline.                                                    *)
(*                                                                         *)
(* Sources: src/security.js holds two revisions of the security module     *)
(* (lines 1-123: the built-in IPv4 matcher; lines 125-229: the             *)
(* cidr-matcher library).  src/server.js holds two revisions of the server *)
(* (lines 1-70: no security module; lines 73-147: secure(app) first) and   *)
(* src/unnamed/part_000 a third one (AUTH_DISABLED bypass).                *)
(*                                                                         *)
(* Strings are TLA+ strings; TLC evaluates Len, Head, Tail, SubSeq and \o  *)
(* on them.  32-bit unsigned integers are kept as two 16-bit halves        *)
(* [hi, lo], so that every intermediate value fits TLC's integers and the  *)
(* JavaScript operators <<, &, |, ~ and >>> 0 keep their 32-bit width.     *)
(***************************************************************************)
EXTENDS Integers, Sequences, FiniteSets, TLC

VARIABLES
    processEnv, \* process.env: the raw value of each variable read, "" when unset
    deploy,     \* which revision of server.js and of security.js the process runs
    now,        \* the current instant, in hours since 2024-02-27T00:00Z
    pc,         \* the process: "init", "listening" or "crashed"
    app,        \* the express app: its middleware pipeline, settings, cron tasks, allow-list
    req,        \* the last request received
    resp,       \* the response it got
    prevFail,   \* why the previous credential failure, if any, was a failure
    posts,      \* the outbound POSTs attempted so far, oldest first
    inflight,   \* the indices in posts of the POSTs not settled yet
    lastFire,   \* the instant at which the cron tasks last ran
    log,        \* the last line sendPasswordToWebhook logged
    verdict,    \* SpecOracle: the last expectedPasswordMatches call and what it returned
    cidrCase,   \* SpecCidr: the input under test (an allow-list entry and a candidate address)
    cidrOut     \* SpecCidr: what parseCIDR / ipv4ToInt / ipAllowed returned for it

cfgVars == <<processEnv, deploy>>
srvVars == <<pc, app>>
reqVars == <<req, resp, prevFail>>
notifyVars == <<posts, inflight, lastFire, log>>
cidrVars == <<cidrCase, cidrOut>>

vars == <<processEnv, deploy, now, pc, app, req, resp, prevFail,
          posts, inflight, lastFire, log, verdict, cidrCase, cidrOut>>

----------------------------------------------------------------------------
(* JavaScript strings *)

CharAt(s, i) == SubSeq(s, i, i)

RECURSIVE IndexFrom(_, _, _)
IndexFrom(s, c, i) ==
    IF i > Len(s) THEN 0
    ELSE IF CharAt(s, i) = c THEN i
    ELSE IndexFrom(s, c, i + 1)

\* String.prototype.indexOf for a one-character needle, 1-based; 0 stands for -1.
indexOf(s, c) == IndexFrom(s, c, 1)

\* String.prototype.split for a one-character separator.
RECURSIVE split(_, _)
split(s, sep) ==
    LET i == indexOf(s, sep)
    IN  IF i = 0 THEN <<s>>
        ELSE <<SubSeq(s, 1, i - 1)>> \o split(SubSeq(s, i + 1, Len(s)), sep)

IsSpace(c) == c = " "

RECURSIVE trimStart(_)
trimStart(s) ==
    IF Len(s) > 0 /\ IsSpace(CharAt(s, 1)) THEN trimStart(Tail(s)) ELSE s

RECURSIVE trimEnd(_)
trimEnd(s) ==
    IF Len(s) > 0 /\ IsSpace(CharAt(s, Len(s)))
    THEN trimEnd(SubSeq(s, 1, Len(s) - 1))
    ELSE s

\* String.prototype.trim
trim(s) == trimEnd(trimStart(s))

\* String.prototype.startsWith
startsWith(s, prefix) ==
    Len(s) >= Len(prefix) /\ SubSeq(s, 1, Len(prefix)) = prefix

----------------------------------------------------------------------------
(* JavaScript numbers: a number is [nan, val]; NaN compares false with     *)
(* everything.                                                             *)

NaN == [nan |-> TRUE, val |-> 0]
Num(v) == [nan |-> FALSE, val |-> v]

DigitVal(c) == indexOf("0123456789", c) - 1

HexVal(c) ==
    IF indexOf("0123456789abcdef", c) > 0 THEN indexOf("0123456789abcdef", c) - 1
    ELSE IF indexOf("ABCDEF", c) > 0 THEN indexOf("ABCDEF", c) + 9
    ELSE -1

AllDigits(s) == Len(s) > 0 /\ \A i \in 1..Len(s) : DigitVal(CharAt(s, i)) >= 0
AllHex(s) == Len(s) > 0 /\ \A i \in 1..Len(s) : HexVal(CharAt(s, i)) >= 0

RECURSIVE DecVal(_)
DecVal(s) ==
    IF Len(s) = 0 THEN 0
    ELSE (10 * DecVal(SubSeq(s, 1, Len(s) - 1))) + DigitVal(CharAt(s, Len(s)))

RECURSIVE HexNum(_)
HexNum(s) ==
    IF Len(s) = 0 THEN 0
    ELSE (16 * HexNum(SubSeq(s, 1, Len(s) - 1))) + HexVal(CharAt(s, Len(s)))

\* Number(str), the StringToNumber conversion, for integer-valued literals:
\* white space is trimmed, the empty string is 0, a decimal literal may carry
\* a sign or an exponent, 0x introduces a hexadecimal literal; everything
\* else is NaN.
Number(s) ==
    LET t == trim(s)
        e == indexOf(t, "e")
    IN  IF Len(t) = 0 THEN Num(0)
        ELSE IF AllDigits(t) THEN Num(DecVal(t))
        ELSE IF Head(t) = "+" /\ AllDigits(Tail(t)) THEN Num(DecVal(Tail(t)))
        ELSE IF Head(t) = "-" /\ AllDigits(Tail(t)) THEN Num(0 - DecVal(Tail(t)))
        ELSE IF Len(t) > 2 /\ SubSeq(t, 1, 2) \in {"0x", "0X"}
                /\ AllHex(SubSeq(t, 3, Len(t)))
             THEN Num(HexNum(SubSeq(t, 3, Len(t))))
        ELSE IF e > 1 /\ AllDigits(SubSeq(t, 1, e - 1))
                /\ AllDigits(SubSeq(t, e + 1, Len(t)))
             THEN Num(DecVal(SubSeq(t, 1, e - 1)) * (10 ^ DecVal(SubSeq(t, e + 1, Len(t)))))
        ELSE NaN

RECURSIVE DigitPrefix(_)
DigitPrefix(s) ==
    IF Len(s) > 0 /\ DigitVal(CharAt(s, 1)) >= 0
    THEN CharAt(s, 1) \o DigitPrefix(Tail(s))
    ELSE ""

\* parseInt(str, 10): leading white space and a sign are skipped, the longest
\* prefix of digits is the value, what follows is ignored; no digit: NaN.
parseInt(s) ==
    LET t == trimStart(s)
        neg == Len(t) > 0 /\ Head(t) = "-"
        u == IF Len(t) > 0 /\ Head(t) \in {"+", "-"} THEN Tail(t) ELSE t
        d == DigitPrefix(u)
    IN  IF Len(d) = 0 THEN NaN
        ELSE Num(IF neg THEN 0 - DecVal(d) ELSE DecVal(d))

\* Number.prototype.toString for a natural number
RECURSIVE ToDec(_)
ToDec(n) ==
    IF n < 10 THEN CharAt("0123456789", n + 1)
    ELSE ToDec(n \div 10) \o CharAt("0123456789", (n % 10) + 1)

\* x >= y and x <= y on numbers (false when x is NaN)
NumGe(x, y) == ~x.nan /\ x.val >= y
NumLe(x, y) == ~x.nan /\ x.val <= y

----------------------------------------------------------------------------
(* 32-bit unsigned words as two 16-bit halves *)

Half == 2 ^ 16

U32(n) == [hi |-> (n \div Half) % Half, lo |-> n % Half]

AllOnes == [hi |-> Half - 1, lo |-> Half - 1]      \* 0xFFFFFFFF

\* (w << k) >>> 0: the shift count is taken modulo 32
Shl32(w, k) ==
    LET s == k % 32
    IN  IF s >= 16
        THEN [hi |-> (w.lo * (2 ^ (s - 16))) % Half, lo |-> 0]
        ELSE [hi |-> (((w.hi * (2 ^ s)) % Half) + ((w.lo * (2 ^ s)) \div Half)) % Half,
              lo |-> (w.lo * (2 ^ s)) % Half]

\* (a + b) >>> 0
Add32(a, b) ==
    [hi |-> (a.hi + b.hi + ((a.lo + b.lo) \div Half)) % Half,
     lo |-> (a.lo + b.lo) % Half]

RECURSIVE BitAnd(_, _)
BitAnd(x, y) ==
    IF x = 0 \/ y = 0 THEN 0
    ELSE ((x % 2) * (y % 2)) + (2 * BitAnd(x \div 2, y \div 2))

RECURSIVE BitOr(_, _)
BitOr(x, y) ==
    IF x = 0 THEN y
    ELSE IF y = 0 THEN x
    ELSE (IF (x % 2) = 1 \/ (y % 2) = 1 THEN 1 ELSE 0) + (2 * BitOr(x \div 2, y \div 2))

And32(a, b) == [hi |-> BitAnd(a.hi, b.hi), lo |-> BitAnd(a.lo, b.lo)]   \* (a & b) >>> 0
Or32(a, b) == [hi |-> BitOr(a.hi, b.hi), lo |-> BitOr(a.lo, b.lo)]      \* (a | b) >>> 0
Not32(a) == [hi |-> Half - 1 - a.hi, lo |-> Half - 1 - a.lo]            \* ~a >>> 0

Le32(a, b) == a.hi < b.hi \/ (a.hi = b.hi /\ a.lo <= b.lo)

----------------------------------------------------------------------------
(* Minimal IPv4 CIDR matcher, src/security.js 23-51 *)

null == [null |-> TRUE]

ipv4ToInt(ip) ==
    LET parts == split(ip, ".")
        p == [i \in 1..Len(parts) |-> Number(parts[i])]
    IN  IF Len(p) # 4 \/ \E i \in 1..Len(p) : p[i].nan \/ p[i].val < 0 \/ p[i].val > 255
        THEN null
        ELSE Add32(Add32(Add32(Shl32(U32(p[1].val), 24), Shl32(U32(p[2].val), 16)),
                         Shl32(U32(p[3].val), 8)),
                   U32(p[4].val))

parseCIDR_NoZeroCase(cidr) ==
    LET parts == split(cidr, "/")
        ip == parts[1]
        bits == IF Len(parts) >= 2 THEN parseInt(parts[2]) ELSE Num(32)
        ipInt == ipv4ToInt(ip)
    IN  IF ipInt = null \/ ~(NumGe(bits, 0) /\ NumLe(bits, 32)) THEN null
        ELSE LET mask == Shl32(AllOnes, 32 - bits.val)
                 start == And32(ipInt, mask)
                 end == Or32(start, Not32(mask))
             IN  [start |-> start, end |-> end]

parseCIDR(cidr) ==
    LET parts == split(cidr, "/")
        ip == parts[1]
        bits == IF Len(parts) >= 2 THEN parseInt(parts[2]) ELSE Num(32)
        ipInt == ipv4ToInt(ip)
    IN  IF ipInt = null \/ ~(NumGe(bits, 0) /\ NumLe(bits, 32)) THEN null
        ELSE LET mask == IF bits.val = 0 THEN U32(0) ELSE Shl32(AllOnes, 32 - bits.val)
                 start == And32(ipInt, mask)
                 end == Or32(start, Not32(mask))
             IN  [start |-> start, end |-> end]

buildRanges(list) ==
    SelectSeq([i \in 1..Len(list) |-> parseCIDR(list[i])], LAMBDA r : r # null)

ipAllowed(ip, ranges) ==
    LET ipInt == ipv4ToInt(ip)
    IN  IF ipInt = null THEN FALSE
        ELSE \E i \in 1..Len(ranges) :
                Le32(ranges[i].start, ipInt) /\ Le32(ipInt, ranges[i].end)


----------------------------------------------------------------------------
(* Config via env, src/security.js 8-21 *)

\* process.env.X || fallback: an unset and an empty variable are both falsy
OrDefault(v, fallback) == IF v = "" THEN fallback ELSE v

UpperOf(c) ==
    LET i == indexOf("abcdefghijklmnopqrstuvwxyz", c)
    IN  IF i = 0 THEN c ELSE CharAt("ABCDEFGHIJKLMNOPQRSTUVWXYZ", i)

RECURSIVE toUpperCase(_)
toUpperCase(s) == IF Len(s) = 0 THEN "" ELSE UpperOf(Head(s)) \o toUpperCase(Tail(s))

TZ == OrDefault(processEnv.TZ, "Africa/Cairo")
BASIC_USER == OrDefault(processEnv.BASIC_USER, "sales")
PASSWORD_MODE == toUpperCase(OrDefault(processEnv.PASSWORD_MODE, "DAILY"))
SECRET == OrDefault(processEnv.SECRET, "changeme")
STATIC_PASSWORD == OrDefault(processEnv.STATIC_PASSWORD, "supersecret")
GRACE_YESTERDAY == processEnv.GRACE_YESTERDAY = "1"

\* .split(',').map(s => s.trim()).filter(Boolean)
ALLOWLIST_IPS ==
    LET raw == split(OrDefault(processEnv.ALLOWLIST_IPS, "192.168.1.9/32"), ",")
    IN  SelectSeq([i \in 1..Len(raw) |-> trim(raw[i])], LAMBDA e : e # "")

----------------------------------------------------------------------------
(* Wall-clock time: luxon's DateTime in a zone.  A DateTime is the civil   *)
(* date and hour of an instant in its zone.                                *)

EpochDate == [year |-> 2024, month |-> 2, day |-> 27]

IsLeapYear(y) == (y % 4 = 0 /\ y % 100 # 0) \/ y % 400 = 0

DaysInMonth(y, m) ==
    IF m = 2 THEN (IF IsLeapYear(y) THEN 29 ELSE 28)
    ELSE IF m \in {4, 6, 9, 11} THEN 30 ELSE 31

NextDate(d) ==
    IF d.day < DaysInMonth(d.year, d.month) THEN [d EXCEPT !.day = @ + 1]
    ELSE IF d.month < 12 THEN [d EXCEPT !.month = @ + 1, !.day = 1]
    ELSE [year |-> d.year + 1, month |-> 1, day |-> 1]

PrevDate(d) ==
    IF d.day > 1 THEN [d EXCEPT !.day = @ - 1]
    ELSE IF d.month > 1
         THEN [d EXCEPT !.month = @ - 1, !.day = DaysInMonth(d.year, d.month - 1)]
    ELSE [year |-> d.year - 1, month |-> 12, day |-> 31]

RECURSIVE AddDays(_, _)
AddDays(d, k) ==
    IF k = 0 THEN d
    ELSE IF k > 0 THEN AddDays(NextDate(d), k - 1)
    ELSE AddDays(PrevDate(d), k + 1)

\* the offset from UTC, in hours, of the zones modelled; none of them changes
\* its offset between 2024-02-25 and 2024-03-05
UtcOffset(zone) ==
    IF zone = "Africa/Cairo" THEN 2
    ELSE IF zone = "America/New_York" THEN -5
    ELSE 0

\* DateTime.fromMillis(t).setZone(zone)
setZone(t, zone) ==
    [date |-> AddDays(EpochDate, (t + UtcOffset(zone)) \div 24),
     hour |-> (t + UtcOffset(zone)) % 24]

\* DateTime.now().setZone(TZ)
DateTimeNow == setZone(now, TZ)

\* dt.minus({ days: n }): calendar days, the wall-clock hour is kept
minusDays(dt, n) == [dt EXCEPT !.date = AddDays(@, 0 - n)]

RECURSIVE padStart(_, _)
padStart(s, width) == IF Len(s) >= width THEN s ELSE padStart("0" \o s, width)

\* dt.toFormat('yyyyLLdd')
toFormat_yyyyLLdd(dt) ==
    padStart(ToDec(dt.date.year), 4) \o padStart(ToDec(dt.date.month), 2)
        \o padStart(ToDec(dt.date.day), 2)

----------------------------------------------------------------------------
(* Password oracle, src/security.js 66-75 (and 159-170) *)

todaysPassword(dt) == SECRET \o "-" \o toFormat_yyyyLLdd(dt)

expectedPasswordMatches_GraceAlways(input) ==
    IF PASSWORD_MODE = "STATIC" THEN input = STATIC_PASSWORD
    ELSE IF input = todaysPassword(DateTimeNow) THEN TRUE
    ELSE IF input = todaysPassword(minusDays(DateTimeNow, 1)) THEN TRUE
    ELSE FALSE

expectedPasswordMatches(input) ==
    IF PASSWORD_MODE = "STATIC" THEN input = STATIC_PASSWORD
    ELSE IF input = todaysPassword(DateTimeNow) THEN TRUE
    ELSE IF GRACE_YESTERDAY /\ input = todaysPassword(minusDays(DateTimeNow, 1)) THEN TRUE
    ELSE FALSE

----------------------------------------------------------------------------
(* Base64 and ASCII, for Buffer.from(text, 'base64').toString() *)

\* the ASCII code of a character, for the letters, the digits and the
\* punctuation the inputs use
Ord(c) ==
    IF indexOf("0123456789", c) > 0 THEN 47 + indexOf("0123456789", c)
    ELSE IF indexOf("ABCDEFGHIJKLMNOPQRSTUVWXYZ", c) > 0
         THEN 64 + indexOf("ABCDEFGHIJKLMNOPQRSTUVWXYZ", c)
    ELSE IF indexOf("abcdefghijklmnopqrstuvwxyz", c) > 0
         THEN 96 + indexOf("abcdefghijklmnopqrstuvwxyz", c)
    ELSE IF indexOf("+,-./", c) > 0 THEN 42 + indexOf("+,-./", c)
    ELSE IF c = " " THEN 32
    ELSE IF c = ":" THEN 58
    ELSE IF c = "=" THEN 61
    ELSE 63

Chr(n) ==
    IF n \in 48..57 THEN CharAt("0123456789", n - 47)
    ELSE IF n \in 65..90 THEN CharAt("ABCDEFGHIJKLMNOPQRSTUVWXYZ", n - 64)
    ELSE IF n \in 97..122 THEN CharAt("abcdefghijklmnopqrstuvwxyz", n - 96)
    ELSE IF n \in 43..47 THEN CharAt("+,-./", n - 42)
    ELSE IF n = 32 THEN " "
    ELSE IF n = 58 THEN ":"
    ELSE IF n = 61 THEN "="
    ELSE "?"

B64Alphabet == "ABCDEFGHIJKLMNOPQRSTUVWXYZabcdefghijklmnopqrstuvwxyz0123456789+/"
B64Char(v) == CharAt(B64Alphabet, v + 1)

BytesOf(s) == [i \in 1..Len(s) |-> Ord(CharAt(s, i))]

RECURSIVE B64EncodeBytes(_)
B64EncodeBytes(b) ==
    IF Len(b) = 0 THEN ""
    ELSE IF Len(b) = 1
         THEN B64Char(b[1] \div 4) \o B64Char((b[1] % 4) * 16) \o "=="
    ELSE IF Len(b) = 2
         THEN B64Char(b[1] \div 4) \o B64Char(((b[1] % 4) * 16) + (b[2] \div 16))
                  \o B64Char((b[2] % 16) * 4) \o "="
    ELSE B64Char(b[1] \div 4) \o B64Char(((b[1] % 4) * 16) + (b[2] \div 16))
             \o B64Char(((b[2] % 16) * 4) + (b[3] \div 64)) \o B64Char(b[3] % 64)
             \o B64EncodeBytes(SubSeq(b, 4, Len(b)))

\* btoa(text), what a client puts after "Basic "
btoa(text) == B64EncodeBytes(BytesOf(text))

\* the 6-bit values of the text up to the first "="; characters outside the
\* alphabet are skipped
RECURSIVE Sextets(_)
Sextets(s) ==
    IF Len(s) = 0 \/ Head(s) = "=" THEN <<>>
    ELSE IF indexOf(B64Alphabet, Head(s)) = 0 THEN Sextets(Tail(s))
    ELSE <<indexOf(B64Alphabet, Head(s)) - 1>> \o Sextets(Tail(s))

RECURSIVE BytesOfSextets(_)
BytesOfSextets(q) ==
    IF Len(q) < 2 THEN <<>>
    ELSE IF Len(q) = 2 THEN <<(q[1] * 4) + (q[2] \div 16)>>
    ELSE IF Len(q) = 3
         THEN <<(q[1] * 4) + (q[2] \div 16), ((q[2] % 16) * 16) + (q[3] \div 4)>>
    ELSE <<(q[1] * 4) + (q[2] \div 16), ((q[2] % 16) * 16) + (q[3] \div 4),
           ((q[3] % 4) * 64) + q[4]>> \o BytesOfSextets(SubSeq(q, 5, Len(q)))

RECURSIVE StringOfBytes(_)
StringOfBytes(b) == IF Len(b) = 0 THEN "" ELSE Chr(Head(b)) \o StringOfBytes(Tail(b))

\* Buffer.from(text, 'base64').toString()
base64Decode(text) == StringOfBytes(BytesOfSextets(Sextets(text)))

----------------------------------------------------------------------------
(* Helpers, src/security.js 54-65 (and 151-157, 172-175) *)

\* an absent header is the empty string: both are falsy
parseBasicAuth(header) ==
    IF header = "" \/ ~startsWith(header, "Basic ") THEN null
    ELSE LET raw == base64Decode(SubSeq(header, 7, Len(header)))
             i == indexOf(raw, ":")
         IN  IF i = 0 THEN null
             ELSE [user |-> SubSeq(raw, 1, i - 1), pass |-> SubSeq(raw, i + 1, Len(raw))]

RECURSIVE FindFrom(_, _, _)
FindFrom(s, pat, i) ==
    IF i + Len(pat) - 1 > Len(s) THEN 0
    ELSE IF SubSeq(s, i, i + Len(pat) - 1) = pat THEN i
    ELSE FindFrom(s, pat, i + 1)

\* String.prototype.replace(pattern, replacement) for a string pattern: the
\* first occurrence only
replace(s, pat, rep) ==
    LET i == FindFrom(s, pat, 1)
    IN  IF i = 0 THEN s
        ELSE SubSeq(s, 1, i - 1) \o rep \o SubSeq(s, i + Len(pat), Len(s))

\* src/security.js 61-65
getClientIP(r) ==
    LET fwd == trim(split(r.xff, ",")[1])
    IN  IF fwd # "" THEN fwd ELSE replace(r.ip, "::ffff:", "")

\* src/security.js 172-175
getClientIP_CidrMatcher(r) ==
    LET fwd == trim(split(r.xff, ",")[1])
    IN  IF fwd # "" THEN fwd ELSE r.ip

----------------------------------------------------------------------------
(* The gate middleware, src/security.js 104-122 and 208-228.  An outcome   *)
(* is what the middleware did: next() or a response, the check it stopped  *)
(* at, and the functions it called, in order.                              *)

NoGate ==
    [ran |-> FALSE, next |-> FALSE, status |-> 0, body |-> "", wwwAuthenticate |-> "",
     stage |-> "none", calls |-> <<>>]

forbidden(calls) ==
    [ran |-> TRUE, next |-> FALSE, status |-> 403, body |-> "Forbidden (IP not allowed)",
     wwwAuthenticate |-> "", stage |-> "ip", calls |-> calls]

challenge_NamesField(stage, calls) ==
    [ran |-> TRUE, next |-> FALSE, status |-> 401,
     body |-> IF stage = "user" THEN "Unknown user" ELSE "Authentication required",
     wwwAuthenticate |-> "Basic realm=\"SERP Viewer\"", stage |-> stage, calls |-> calls]

challenge(stage, calls) ==
    [ran |-> TRUE, next |-> FALSE, status |-> 401, body |-> "Authentication required",
     wwwAuthenticate |-> "Basic realm=\"SERP Viewer\"", stage |-> stage, calls |-> calls]

passed(calls) ==
    [ran |-> TRUE, next |-> TRUE, status |-> 0, body |-> "", wwwAuthenticate |-> "",
     stage |-> "passed", calls |-> calls]

\* 2) Basic Auth, the same in both revisions
basicAuth(r, calls) ==
    LET creds == parseBasicAuth(r.authorization)
        c1 == Append(calls, "parseBasicAuth")
        c2 == Append(c1, "expectedPasswordMatches")
    IN  IF creds = null THEN challenge("creds", c1)
        ELSE IF creds.user # BASIC_USER THEN challenge("user", c1)
        ELSE IF ~expectedPasswordMatches(creds.pass) THEN challenge("password", c2)
        ELSE passed(c2)

\* src/security.js 104-122
gateMinimal(r, ranges) ==
    LET ip == getClientIP(r)
        calls == <<"getClientIP", "ipAllowed">>
    IN  IF ~ipAllowed(ip, ranges) THEN forbidden(calls)
        ELSE basicAuth(r, calls)

\* new CIDRMatcher(list) of the cidr-matcher library: the ranges of the list
CIDRMatcher(list) == [ranges |-> buildRanges(list)]

\* matcher.contains(ip) of the cidr-matcher library: whether the address lies
\* in one of the ranges; a text that is no address lies in none
matcherContains(matcher, ip) ==
    LET parts == split(ip, ".")
    IN  /\ Len(parts) = 4
        /\ \A i \in 1..4 : AllDigits(parts[i])
        /\ ipAllowed(ip, matcher.ranges)

\* src/security.js 208-228
gateCidrMatcher(r, matcher) ==
    IF matcher # null
    THEN LET ip == getClientIP_CidrMatcher(r)
             calls == <<"getClientIP", "matcher.contains">>
         IN  IF ~matcherContains(matcher, ip) THEN forbidden(calls)
             ELSE basicAuth(r, calls)
    ELSE basicAuth(r, <<>>)

----------------------------------------------------------------------------
(* secure(app), src/security.js 96-123 and 197-229 *)

CronTask == [expression |-> "0 9 * * *", timezone |-> TZ]

secureMinimal(a) ==
    [a EXCEPT !.trustProxy = 1,
              !.cron = Append(@, CronTask),
              !.ranges = buildRanges(ALLOWLIST_IPS),
              !.pipeline = Append(@, "gate")]

secureCidrMatcher(a) ==
    [a EXCEPT !.trustProxy = 1,
              !.cron = Append(@, CronTask),
              !.matcher = IF Len(ALLOWLIST_IPS) > 0 THEN CIDRMatcher(ALLOWLIST_IPS) ELSE null,
              !.pipeline = Append(@, "gate")]

\* require('./security')(app)
secure(a) == IF deploy.security = "cidrMatcher" THEN secureCidrMatcher(a) ELSE secureMinimal(a)

\* the gate middleware secure(app) installed
gate(r) ==
    IF deploy.security = "cidrMatcher" THEN gateCidrMatcher(r, app.matcher)
    ELSE gateMinimal(r, app.ranges)

----------------------------------------------------------------------------
(* The server, src/server.js 1-70, src/server.js 73-147 and                *)
(* src/unnamed/part_000                                                    *)

\* helmet, compression, morgan, express.json, express.static, the health
\* routes and the SPA fallback, in the order all three revisions install them
Plumbing == <<"helmet", "compression", "morgan", "json", "static", "health", "spa">>

withPlumbing(a) == [a EXCEPT !.pipeline = @ \o Plumbing]

FreshApp == [pipeline |-> <<>>, trustProxy |-> 0, cron |-> <<>>, ranges |-> <<>>, matcher |-> null]

\* src/server.js 1-70: no security module
serverStatic == withPlumbing([FreshApp EXCEPT !.trustProxy = 1])

serverSecured_GateAfterStatic ==
    LET a == withPlumbing(FreshApp)
    IN  [secure(a) EXCEPT !.pipeline = SubSeq(a.pipeline, 1, 5) \o <<"gate">>
                                           \o SubSeq(a.pipeline, 6, 7)]

\* src/server.js 73-147: secure(app) first
serverSecured == withPlumbing(secure(FreshApp))

\* src/unnamed/part_000: secure(app) first unless AUTH_DISABLED=1 or the
\* module is missing
serverBypassable ==
    LET AUTH_DISABLED == processEnv.AUTH_DISABLED = "1"
        a == [FreshApp EXCEPT !.trustProxy = 1]
    IN  IF AUTH_DISABLED THEN withPlumbing(a)
        ELSE IF deploy.security # "missing" THEN withPlumbing(secure(a))
        ELSE withPlumbing(a)

\* node server.js, up to app.listen; require('./security') throws in the
\* revision that does not catch it
StartServer ==
    /\ pc = "init"
    /\ IF deploy.server = "secured" /\ deploy.security = "missing"
       THEN pc' = "crashed" /\ app' = app
       ELSE /\ pc' = "listening"
            /\ app' = IF deploy.server = "static" THEN serverStatic
                      ELSE IF deploy.server = "secured" THEN serverSecured
                      ELSE serverBypassable
    /\ UNCHANGED <<cfgVars, now, reqVars, notifyVars, verdict, cidrVars>>

StaticFiles == {"/", "/app.js"}
HealthPaths == {"/health", "/healthz", "/_health"}

answer(status, by, g) ==
    [status |-> status, body |-> by, wwwAuthenticate |-> "", by |-> by, gate |-> g]

\* a GET request through the middleware from position i on; g is what the
\* gate did, if it ran
RECURSIVE runPipeline(_, _, _)
runPipeline(r, i, g) ==
    IF i > Len(app.pipeline) THEN answer(404, "finalhandler", g)
    ELSE LET m == app.pipeline[i]
         IN  IF m = "gate"
             THEN LET o == gate(r)
                  IN  IF o.next THEN runPipeline(r, i + 1, o)
                      ELSE [status |-> o.status, body |-> o.body,
                            wwwAuthenticate |-> o.wwwAuthenticate, by |-> "gate", gate |-> o]
             ELSE IF m = "static" /\ r.path \in StaticFiles THEN answer(200, "static", g)
             ELSE IF m = "health" /\ r.path \in HealthPaths THEN answer(200, "health", g)
             ELSE IF m = "spa" THEN answer(200, "spa", g)
             ELSE runPipeline(r, i + 1, g)

----------------------------------------------------------------------------
(* Values of the variables a specification does not use *)

UnsetEnv ==
    [TZ |-> "", BASIC_USER |-> "", PASSWORD_MODE |-> "", SECRET |-> "",
     STATIC_PASSWORD |-> "", GRACE_YESTERDAY |-> "", ALLOWLIST_IPS |-> "",
     PASSWORD_NOTIFY_URL |-> "", AUTH_DISABLED |-> ""]

NoDeploy == [server |-> "none", security |-> "none"]
NoApp == FreshApp
NoRequest == [xff |-> "", ip |-> "", credentials |-> [scheme |-> "", text |-> ""], path |-> ""]
NoResponse == [status |-> 0, body |-> "", wwwAuthenticate |-> "", by |-> "none", gate |-> NoGate]
NoFailure == [reason |-> "none", status |-> 0, body |-> "", wwwAuthenticate |-> ""]
NoVerdict == [issuedDay |-> 0, input |-> "", ok |-> FALSE, called |-> FALSE]

IdleServer == pc = "init" /\ app = NoApp
IdleRequests == req = NoRequest /\ resp = NoResponse /\ prevFail = NoFailure
IdleNotifier == posts = <<>> /\ inflight = {} /\ lastFire = -1 /\ log = "none"

----------------------------------------------------------------------------
(* the strict reading of a dotted quad and of an allow-list entry *)

PlainOctet(t) == AllDigits(t) /\ Len(t) <= 3 /\ DecVal(t) <= 255

WellFormedAddr(s) ==
    LET parts == split(s, ".")
    IN  Len(parts) = 4 /\ \A i \in 1..4 : PlainOctet(parts[i])

WellFormedCIDR(s) ==
    LET parts == split(s, "/")
    IN  /\ Len(parts) \in {1, 2}
        /\ WellFormedAddr(parts[1])
        /\ Len(parts) = 2 => (AllDigits(parts[2]) /\ Len(parts[2]) <= 2 /\ DecVal(parts[2]) <= 32)

----------------------------------------------------------------------------
(* Spec: the server with the gate installed, one request at a time         *)

MaxNow == 96

\* yyyyLLdd of the local days around the epoch date, day -2 first
DateTable ==
    <<"20240225", "20240226", "20240227", "20240228", "20240229",
      "20240301", "20240302", "20240303", "20240304">>

\* the local calendar day of instant t, counted from the epoch date
LocalDayIndex(t) == (t + UtcOffset(TZ)) \div 24

\* the Daily-mode password of local day d, as an operator of the dashboard
\* would type it
DailyPasswordOf(d) == SECRET \o "-" \o DateTable[d + 3]

AllowListEnvs == {"10.0.0.5/32", "10.0.0.0/24, 999.1.1.1/24", ",", "1.2.3/24"}

GateEnvs ==
    {[UnsetEnv EXCEPT !.ALLOWLIST_IPS = l, !.PASSWORD_MODE = m, !.GRACE_YESTERDAY = g] :
        l \in AllowListEnvs, m \in {"", "static"}, g \in {"", "1"}}

GateDeploys == {[server |-> "secured", security |-> v] : v \in {"minimal", "cidrMatcher"}}

Init ==
    /\ processEnv \in GateEnvs /\ deploy \in GateDeploys
    /\ now \in {0, MaxNow \div 2}
    /\ IdleServer /\ IdleRequests /\ IdleNotifier /\ verdict = NoVerdict
    /\ cidrCase = <<>> /\ cidrOut = <<>>

\* the X-Forwarded-For header ("" when absent) and the connection address of
\* the clients
ClientAddrs ==
    {[xff |-> "", ip |-> "::ffff:10.0.0.5"],
     [xff |-> "", ip |-> "10.0.0.6"],
     [xff |-> "", ip |-> "::1"],
     [xff |-> "10.0.0.5", ip |-> "10.0.0.6"],
     [xff |-> "10.0.0.6, 10.0.0.5", ip |-> "::ffff:10.0.0.5"],
     [xff |-> "not.an.ip", ip |-> "::1"],
     [xff |-> "10..0.5", ip |-> "::1"]}

\* what clients put in the Authorization header at the current instant: a
\* scheme and, for Basic, the text they encode ("" is no header at all)
Credentials ==
    LET today == LocalDayIndex(now)
    IN  {[scheme |-> "", text |-> ""],
         [scheme |-> "Bearer", text |-> "abc"],
         [scheme |-> "Basic", text |-> "salesnocolon"],
         [scheme |-> "Basic", text |-> "admin:" \o DailyPasswordOf(today)],
         [scheme |-> "Basic", text |-> "sales:wr:ong"],
         [scheme |-> "Basic", text |-> "sales:" \o DailyPasswordOf(today)],
         [scheme |-> "Basic", text |-> "sales:" \o DailyPasswordOf(today - 1)],
         [scheme |-> "Basic", text |-> "sales:" \o DailyPasswordOf(today - 2)],
         [scheme |-> "Basic", text |-> "sales:" \o STATIC_PASSWORD]}

GateRequests ==
    {[xff |-> c.xff, ip |-> c.ip, credentials |-> h, path |-> "/"] :
        c \in ClientAddrs, h \in Credentials}

\* req.headers.authorization as it arrives: Basic credentials are base64 text
authorizationOf(r) ==
    IF r.credentials.scheme = "" THEN ""
    ELSE IF r.credentials.scheme = "Basic" THEN "Basic " \o btoa(r.credentials.text)
    ELSE r.credentials.scheme \o " " \o r.credentials.text

\* the response is a credential failure of the gate
CredFailure(p) == p.by = "gate" /\ p.gate.stage \in {"creds", "user", "password"}

\* why the credentials of a request fail, in the words of the specification
FailureReason(r) ==
    LET c == r.credentials
        i == indexOf(c.text, ":")
    IN  IF c.scheme = "" THEN "missing header"
        ELSE IF c.scheme # "Basic" THEN "non-Basic scheme"
        ELSE IF i = 0 THEN "no colon"
        ELSE IF SubSeq(c.text, 1, i - 1) # BASIC_USER THEN "wrong username"
        ELSE "wrong password"

\* a request arrives; the previous response has been sent
Receive(r) ==
    /\ pc = "listening"
    /\ req = NoRequest \/ resp # NoResponse
    /\ req' = r
    /\ resp' = NoResponse
    /\ prevFail' = IF CredFailure(resp)
                   THEN [reason |-> resp.gate.stage, status |-> resp.status,
                         body |-> resp.body, wwwAuthenticate |-> resp.wwwAuthenticate]
                   ELSE prevFail
    /\ UNCHANGED <<cfgVars, now, srvVars, notifyVars, verdict, cidrVars>>

GateRequest == \E r \in GateRequests : Receive(r)

\* app.handle(req, res): the request runs through the pipeline
Handle ==
    /\ pc = "listening"
    /\ req # NoRequest /\ resp = NoResponse
    /\ resp' = runPipeline([xff |-> req.xff, ip |-> req.ip, path |-> req.path,
                             authorization |-> authorizationOf(req)], 1, NoGate)
    /\ UNCHANGED <<cfgVars, now, srvVars, req, prevFail, notifyVars, verdict, cidrVars>>

Next == StartServer \/ GateRequest \/ Handle

Spec == Init /\ [][Next]_vars

(* what the claims call the resolved client address and the four checks *)

ResolvedAddress(r) ==
    LET first == trim(split(r.xff, ",")[1])
    IN  IF first # "" THEN first ELSE replace(r.ip, "::ffff:", "")

\* the address lies in at least one range of the allow-list
InAllowList(r) ==
    /\ WellFormedAddr(ResolvedAddress(r))
    /\ \E i \in 1..Len(ALLOWLIST_IPS) :
          /\ WellFormedCIDR(ALLOWLIST_IPS[i])
          /\ ipAllowed(ResolvedAddress(r), <<parseCIDR(ALLOWLIST_IPS[i])>>)

\* the user and password a client put in its Basic credentials, null when
\* there are none
CredentialsOf(r) ==
    LET c == r.credentials
        i == indexOf(c.text, ":")
    IN  IF c.scheme # "Basic" \/ i = 0 THEN null
        ELSE [user |-> SubSeq(c.text, 1, i - 1), pass |-> SubSeq(c.text, i + 1, Len(c.text))]

\* the password is the static one, today's, or under grace yesterday's
PasswordAccepted(pass) ==
    IF PASSWORD_MODE = "STATIC" THEN pass = STATIC_PASSWORD
    ELSE \/ pass = DailyPasswordOf(LocalDayIndex(now))
         \/ GRACE_YESTERDAY /\ pass = DailyPasswordOf(LocalDayIndex(now) - 1)

\* C1: the gate calls next() only if the address is in the allow-list, the
\* header parses as Basic credentials, the username is the configured one
\* and the password is accepted; otherwise it answers 403 or 401.
GatePassThroughSafety ==
    resp.gate.ran =>
        /\ resp.gate.next =>
              /\ InAllowList(req)
              /\ CredentialsOf(req) # null
              /\ CredentialsOf(req).user = BASIC_USER
              /\ PasswordAccepted(CredentialsOf(req).pass)
        /\ ~resp.gate.next => (resp.by = "gate" /\ resp.status \in {401, 403})

\* C2: a request whose address is in no allow-list range is answered 403
\* with the IP-rejection body and no challenge, and its credentials are
\* neither parsed nor compared.
IpCheckPrecedesCredentials ==
    (resp.gate.ran /\ ~InAllowList(req)) =>
        /\ resp.by = "gate" /\ resp.status = 403
        /\ resp.body = "Forbidden (IP not allowed)"
        /\ resp.wwwAuthenticate = ""
        /\ \A i \in 1..Len(resp.gate.calls) :
              resp.gate.calls[i] \notin {"parseBasicAuth", "expectedPasswordMatches"}

\* C3: two credential failures, whatever their reasons, get the same status
\* (401), body and WWW-Authenticate header.
AuthFailuresIndistinguishable ==
    CredFailure(resp) =>
        /\ resp.status = 401
        /\ resp.wwwAuthenticate = "Basic realm=\"SERP Viewer\""
        /\ prevFail.reason # "none" =>
              /\ resp.status = prevFail.status
              /\ resp.body = prevFail.body
              /\ resp.wwwAuthenticate = prevFail.wwwAuthenticate

AuthFailuresWitness ==
    /\ CredFailure(resp) /\ FailureReason(req) = "wrong password"
    /\ prevFail.reason = "user"

\* C7: when neither the first forwarded-for token nor the connection address
\* is an IPv4 address, the request is answered 403 and never reaches the
\* credential stage, whatever the allow-list.
FailClosedOnClientAddress ==
    (resp.gate.ran
     /\ ~WellFormedAddr(trim(split(req.xff, ",")[1]))
     /\ ~WellFormedAddr(replace(req.ip, "::ffff:", ""))) =>
        /\ resp.by = "gate" /\ resp.status = 403
        /\ resp.gate.stage = "ip"

----------------------------------------------------------------------------
(* SpecServer: every revision of the server, with and without the          *)
(* security module, with and without AUTH_DISABLED                         *)

ServerDeploys ==
    {[server |-> v, security |-> w] :
        v \in {"static", "secured", "bypassable"}, w \in {"minimal", "cidrMatcher", "missing"}}

ServerEnvs ==
    {[UnsetEnv EXCEPT !.AUTH_DISABLED = d, !.ALLOWLIST_IPS = l] :
        d \in {"", "1"}, l \in {"10.0.0.5/32", ","}}

InitServer ==
    /\ processEnv \in ServerEnvs /\ deploy \in ServerDeploys /\ now = 0
    /\ IdleServer /\ IdleRequests /\ IdleNotifier /\ verdict = NoVerdict
    /\ cidrCase = <<>> /\ cidrOut = <<>>

ServerRequests ==
    {[xff |-> x, ip |-> "10.0.0.6", credentials |-> h, path |-> q] :
        x \in {"", "10.0.0.5"},
        h \in {[scheme |-> "", text |-> ""],
               [scheme |-> "Basic", text |-> "sales:" \o DailyPasswordOf(LocalDayIndex(now))]},
        q \in {"/health", "/app.js", "/serp/report"}}

ServerRequest == \E r \in ServerRequests : Receive(r)

NextServer == StartServer \/ ServerRequest \/ Handle

SpecServer == InitServer /\ [][NextServer]_vars

GateInstalled == \E i \in 1..Len(app.pipeline) : app.pipeline[i] = "gate"

\* the server applied the security module when it started
SecurityApplied ==
    /\ pc = "listening"
    /\ \/ deploy.server = "secured"
       \/ /\ deploy.server = "bypassable"
          /\ processEnv.AUTH_DISABLED # "1"
          /\ deploy.security # "missing"

DownstreamHandlers == {"static", "health", "spa", "finalhandler"}

\* C10 as stated: whenever the server has started, the gate is the first
\* middleware, and a request answered downstream has passed the gate.
GateFirstInEveryConfiguration ==
    pc = "listening" =>
        /\ Len(app.pipeline) > 0 /\ app.pipeline[1] = "gate"
        /\ resp.by \in DownstreamHandlers => (resp.gate.ran /\ resp.gate.next)

\* C10 amended: the gate is installed exactly when the server applied the
\* security module; then it is the first middleware and the only gate, and a
\* request answered downstream has passed it.
GateFirstWhenApplied ==
    pc = "listening" =>
        /\ GateInstalled <=> SecurityApplied
        /\ GateInstalled =>
              /\ app.pipeline[1] = "gate"
              /\ \A i \in 2..Len(app.pipeline) : app.pipeline[i] # "gate"
              /\ resp.by \in DownstreamHandlers => (resp.gate.ran /\ resp.gate.next)

GateFirstWitness ==
    /\ pc = "listening" /\ deploy.server = "bypassable" /\ GateInstalled
    /\ resp.by = "static" /\ resp.gate.next

----------------------------------------------------------------------------
(* Daily notifier, src/security.js 76-100 (and 177-202) *)

PASSWORD_NOTIFY_URL ==
    OrDefault(processEnv.PASSWORD_NOTIFY_URL,
              "https://ebp.app.n8n.cloud/webhook/793618c9-4276-4367-a3b4-09077142c2ff")

\* JSON.stringify({ password: pwd }), for a password without quotes or
\* backslashes
JSONstringifyPassword(pwd) == "{\"password\":\"" \o pwd \o "\"}"

\* sendPasswordToWebhook up to its await: the POST it issues at this instant
notifyRequest ==
    LET pwd == todaysPassword(DateTimeNow)
    IN  [url |-> PASSWORD_NOTIFY_URL, method |-> "POST", contentType |-> "application/json",
         body |-> JSONstringifyPassword(pwd), password |-> pwd, at |-> now]

afterFetch_RetryOnFailure(outcome) ==
    IF outcome = "ok" THEN [log |-> "sent", retry |-> FALSE, crash |-> FALSE]
    ELSE IF outcome = "not ok" THEN [log |-> "failed", retry |-> TRUE, crash |-> FALSE]
    ELSE [log |-> "error", retry |-> TRUE, crash |-> FALSE]

\* sendPasswordToWebhook after its await: res.ok, !res.ok, or fetch rejected;
\* it logs, never posts again and never throws
afterFetch(outcome) ==
    IF outcome = "ok" THEN [log |-> "sent", retry |-> FALSE, crash |-> FALSE]
    ELSE IF outcome = "not ok" THEN [log |-> "failed", retry |-> FALSE, crash |-> FALSE]
    ELSE [log |-> "error", retry |-> FALSE, crash |-> FALSE]

\* node-cron: the task is due at instant t when the wall clock of its zone
\* shows the minute and hour of its expression (instants are whole hours)
cronDue(task, t) ==
    LET f == split(task.expression, " ")
    IN  /\ Number(f[1]).val = 0
        /\ setZone(t, task.timezone).hour = Number(f[2]).val

FireDue ==
    /\ pc = "listening" /\ lastFire # now
    /\ \E i \in 1..Len(app.cron) : cronDue(app.cron[i], now)

NotifierDeploys ==
    {[server |-> "static", security |-> "minimal"],
     [server |-> "secured", security |-> "minimal"],
     [server |-> "secured", security |-> "cidrMatcher"],
     [server |-> "bypassable", security |-> "minimal"],
     [server |-> "bypassable", security |-> "missing"]}

NotifierEnvs ==
    {[UnsetEnv EXCEPT !.TZ = z, !.PASSWORD_MODE = m, !.AUTH_DISABLED = d] :
        z \in {"", "UTC", "America/New_York"}, m \in {"", "static"}, d \in {"", "1"}}

InitNotifier ==
    /\ processEnv \in NotifierEnvs /\ deploy \in NotifierDeploys /\ now = 0
    /\ IdleServer /\ IdleRequests /\ IdleNotifier /\ verdict = NoVerdict
    /\ cidrCase = <<>> /\ cidrOut = <<>>

\* one hour passes, once the tasks due now have run; a POST settles within a
\* day
Tick ==
    /\ pc # "init" /\ now < MaxNow
    /\ ~FireDue
    /\ \A i \in inflight : now - posts[i].at < 23
    /\ now' = now + 1
    /\ UNCHANGED <<cfgVars, srvVars, reqVars, notifyVars, verdict, cidrVars>>

\* the scheduler runs every task that is due: each calls sendPasswordToWebhook
CronFire ==
    /\ FireDue
    /\ LET due == SelectSeq(app.cron, LAMBDA task : cronDue(task, now))
           sent == [i \in 1..Len(due) |-> notifyRequest]
       IN  /\ posts' = posts \o sent
           /\ inflight' = inflight \cup (Len(posts) + 1)..(Len(posts) + Len(sent))
    /\ lastFire' = now
    /\ UNCHANGED <<cfgVars, now, srvVars, reqVars, log, verdict, cidrVars>>

\* a POST settles: a success status, another status, or a network error
FetchSettles ==
    /\ \E i \in inflight, outcome \in {"ok", "not ok", "rejected"} :
          LET after == afterFetch(outcome)
          IN  /\ log' = after.log
              /\ posts' = IF after.retry THEN Append(posts, notifyRequest) ELSE posts
              /\ inflight' = IF after.retry THEN (inflight \ {i}) \cup {Len(posts) + 1}
                             ELSE inflight \ {i}
              /\ pc' = IF after.crash THEN "crashed" ELSE pc
    /\ UNCHANGED <<cfgVars, now, app, reqVars, lastFire, verdict, cidrVars>>

NextNotifier == StartServer \/ Tick \/ CronFire \/ FetchSettles

SpecNotifier == InitNotifier /\ [][NextNotifier]_vars

DayWindow == (0 - 1)..((MaxNow + 24) \div 24)

\* the POSTs made on local day d
PostsOfDay(d) == {i \in 1..Len(posts) : LocalDayIndex(posts[i].at) = d}

\* the instant at which the wall clock of the configured zone shows 09:00 on
\* local day d
NineOClock(d) == (24 * d) + 9 - UtcOffset(TZ)

OnePostPerDay ==
    /\ Len(app.cron) = 1
    /\ \A d \in DayWindow :
          /\ Cardinality(PostsOfDay(d)) <= 1
          /\ NineOClock(d) \in 0..(now - 1) => Cardinality(PostsOfDay(d)) = 1
          /\ Cardinality(PostsOfDay(d)) = 1 => NineOClock(d) \in 0..now
    /\ \A i \in 1..Len(posts) :
          /\ posts[i].at = NineOClock(LocalDayIndex(posts[i].at))
          /\ posts[i].method = "POST" /\ posts[i].url = PASSWORD_NOTIFY_URL
          /\ posts[i].body
                = "{\"password\":\"" \o DailyPasswordOf(LocalDayIndex(posts[i].at)) \o "\"}"

\* C9 as stated: every running process has exactly one recurring trigger and
\* makes exactly one POST per calendar day, at 09:00, carrying that day's
\* password, whatever became of the earlier POSTs.
OneNotificationPerDayAlways == pc # "init" => (pc = "listening" /\ OnePostPerDay)

\* C9 amended: so it is in every process whose startup applied the security
\* module.
OneNotificationPerDay == SecurityApplied => OnePostPerDay

OneNotificationWitness ==
    /\ SecurityApplied /\ Len(posts) >= 2 /\ inflight = {Len(posts)}
    /\ log \in {"failed", "error"}

\* C8: in every configuration the password the notifier would deliver now,
\* and the one it has just delivered, is accepted by the gate now.
NotifiedPasswordAccepted ==
    /\ expectedPasswordMatches(notifyRequest.password)
    /\ \A i \in 1..Len(posts) :
          posts[i].at = now => expectedPasswordMatches(posts[i].password)

----------------------------------------------------------------------------
(* SpecOracle: the clock advances, and passwords derived at earlier        *)
(* instants are presented to expectedPasswordMatches.                      *)

TimeZones == {"", "UTC", "America/New_York"}

OracleEnvs ==
    {[UnsetEnv EXCEPT !.TZ = z, !.PASSWORD_MODE = m, !.GRACE_YESTERDAY = g] :
        z \in TimeZones, m \in {"", "static"}, g \in {"", "1"}}

InitOracle ==
    /\ processEnv \in OracleEnvs /\ deploy = NoDeploy /\ now = 0
    /\ IdleServer /\ IdleRequests /\ IdleNotifier /\ verdict = NoVerdict
    /\ cidrCase = <<>> /\ cidrOut = <<>>

\* one hour passes; the value a call returned is gone by then
OracleTick ==
    /\ now < MaxNow
    /\ now' = now + 1
    /\ verdict' = NoVerdict
    /\ UNCHANGED <<cfgVars, srvVars, reqVars, notifyVars, cidrVars>>

\* expectedPasswordMatches(input), input being the password derived at an
\* earlier instant t
OracleVerify ==
    /\ \E t \in 0..now :
          LET input == todaysPassword(setZone(t, TZ))
          IN  verdict' = [issuedDay |-> LocalDayIndex(t), input |-> input,
                          ok |-> expectedPasswordMatches(input), called |-> TRUE]
    /\ UNCHANGED <<cfgVars, now, srvVars, reqVars, notifyVars, cidrVars>>

NextOracle == OracleTick \/ OracleVerify

SpecOracle == InitOracle /\ [][NextOracle]_vars

\* C4: in Daily mode the password derived on day D is accepted throughout
\* day D, on day D+1 iff grace is enabled, and on no later day.
DailyRotationWithGrace ==
    (verdict.called /\ PASSWORD_MODE # "STATIC") =>
        LET age == LocalDayIndex(now) - verdict.issuedDay
        IN  verdict.ok <=> (age = 0 \/ (age = 1 /\ GRACE_YESTERDAY))

DailyRotationGraceWitness ==
    /\ verdict.called /\ PASSWORD_MODE # "STATIC" /\ GRACE_YESTERDAY
    /\ LocalDayIndex(now) - verdict.issuedDay = 1 /\ verdict.ok

DailyRotationExpiryWitness ==
    /\ verdict.called /\ PASSWORD_MODE # "STATIC" /\ GRACE_YESTERDAY
    /\ LocalDayIndex(now) - verdict.issuedDay = 2 /\ ~verdict.ok
    /\ verdict.input = "changeme-20240229"

----------------------------------------------------------------------------
(* SpecCidr: parseCIDR, ipv4ToInt and ipAllowed applied to bounded inputs  *)

\* the dotted-quad text of four octets
FormatIPv4(o) == ToDec(o[1]) \o "." \o ToDec(o[2]) \o "." \o ToDec(o[3]) \o "." \o ToDec(o[4])

\* bit i (1 = most significant, 32 = least) of an address given by its octets
BitOf(o, i) == (o[((i - 1) \div 8) + 1] \div (2 ^ (7 - ((i - 1) % 8)))) % 2

\* the address that differs from o in bit k only (k = 0: o itself)
FlipBit(o, k) ==
    IF k = 0 THEN o
    ELSE LET j == ((k - 1) \div 8) + 1
             w == 2 ^ (7 - ((k - 1) % 8))
         IN  [o EXCEPT ![j] = IF BitOf(o, k) = 1 THEN @ - w ELSE @ + w]

BaseAddrs ==
    << <<10, 0, 0, 5>>, <<192, 168, 1, 9>>, <<255, 255, 255, 255>>,
       <<0, 0, 0, 0>>, <<172, 16, 254, 1>>, <<127, 0, 0, 1>> >>

NumBaseAddrs == 3

Addrs == {BaseAddrs[i] : i \in 1..NumBaseAddrs}

ValidCidrCases ==
    {[kind |-> "valid", a |-> a, n |-> n, bare |-> FALSE, c |-> c,
      cidr |-> FormatIPv4(a) \o "/" \o ToDec(n), cand |-> FormatIPv4(c)] :
        a \in Addrs, n \in 0..32,
        c \in Addrs \cup {FlipBit(x, k) : x \in Addrs, k \in 0..32}}
    \cup
    {[kind |-> "valid", a |-> a, n |-> 32, bare |-> TRUE, c |-> c,
      cidr |-> FormatIPv4(a), cand |-> FormatIPv4(c)] :
        a \in Addrs, c \in Addrs \cup {FlipBit(x, k) : x \in Addrs, k \in 0..32}}

RawCidrs ==
    {"999.1.1.1/24", "1.2.3/24", "1.2.3.4/33", "not.an.ip",
     "10..0.5", "10.0.0.5/8x", "0x0A.0.0.5", "1e1.0.0.5/8", "10.0.0.5/",
     "10.0.0.256", "-1.0.0.5", "10.0.0.5/-1", "10.0.0.5/24", ""}

RawAddrs == {"10.0.0.5", "10..0.5", "::1", "", "::ffff:10.0.0.5", "not.an.ip", "10.0.0"}

RawCidrCases ==
    {[kind |-> "raw", a |-> <<>>, n |-> 0, bare |-> FALSE, c |-> <<>>,
      cidr |-> t, cand |-> x] : t \in RawCidrs, x \in RawAddrs}

InitCidr ==
    /\ cidrCase \in ValidCidrCases \cup RawCidrCases
    /\ cidrOut = [stage |-> "input", range |-> null, candInt |-> null, allowed |-> FALSE]
    /\ processEnv = UnsetEnv /\ deploy = NoDeploy /\ now = 0
    /\ IdleServer /\ IdleRequests /\ IdleNotifier /\ verdict = NoVerdict

\* parseCIDR on the entry, ipv4ToInt on the candidate
CidrParse ==
    /\ cidrOut.stage = "input"
    /\ cidrOut' = [cidrOut EXCEPT !.stage = "parsed",
                                  !.range = parseCIDR(cidrCase.cidr),
                                  !.candInt = ipv4ToInt(cidrCase.cand)]
    /\ UNCHANGED <<cidrCase, cfgVars, now, srvVars, reqVars, notifyVars, verdict>>

\* ipAllowed(candidate, buildRanges([entry]))
CidrMatch ==
    /\ cidrOut.stage = "parsed"
    /\ cidrOut' = [cidrOut EXCEPT !.stage = "matched",
                                  !.allowed = ipAllowed(cidrCase.cand,
                                                        buildRanges(<<cidrCase.cidr>>))]
    /\ UNCHANGED <<cidrCase, cfgVars, now, srvVars, reqVars, notifyVars, verdict>>

NextCidr == CidrParse \/ CidrMatch

SpecCidr == InitCidr /\ [][NextCidr]_vars

(* the prefix reference, from the bits of the octets *)

RECURSIVE SumBits(_, _, _)
SumBits(f, i, j) == IF i > j THEN 0 ELSE (f[i] * (2 ^ (j - i))) + SumBits(f, i + 1, j)

WordOfBits(f) == [hi |-> SumBits(f, 1, 16), lo |-> SumBits(f, 17, 32)]

RefStart(a, n) == WordOfBits([i \in 1..32 |-> IF i <= n THEN BitOf(a, i) ELSE 0])
RefEnd(a, n) == WordOfBits([i \in 1..32 |-> IF i <= n THEN BitOf(a, i) ELSE 1])
TopBitsEqual(a, c, n) == \A i \in 1..n : BitOf(a, i) = BitOf(c, i)

\* C5: for a valid entry a/n (or a bare a, n = 32) and a valid candidate c,
\* parseCIDR yields start = a & mask, end = start | ~mask with start <= end,
\* and ipAllowed(c, buildRanges([a/n])) is true iff the top n bits of c
\* equal the top n bits of a.
CidrMatchesPrefix ==
    (cidrCase.kind = "valid" /\ cidrOut.stage # "input") =>
        /\ cidrOut.range # null
        /\ cidrOut.range.start = RefStart(cidrCase.a, cidrCase.n)
        /\ cidrOut.range.end = RefEnd(cidrCase.a, cidrCase.n)
        /\ Le32(cidrOut.range.start, cidrOut.range.end)
        /\ cidrOut.stage = "matched" =>
               (cidrOut.allowed <=> TopBitsEqual(cidrCase.a, cidrCase.c, cidrCase.n))

CidrMatchesPrefixWitness ==
    /\ cidrCase.kind = "valid" /\ cidrOut.stage = "matched"
    /\ cidrCase.n \in 1..31 /\ cidrCase.c # cidrCase.a /\ cidrOut.allowed

\* C6: parseCIDR returns null for every malformed entry and ipv4ToInt returns
\* null (so ipAllowed is false) for every malformed address.
ParseRejectsMalformed ==
    (cidrCase.kind = "raw" /\ cidrOut.stage # "input") =>
        /\ ~WellFormedCIDR(cidrCase.cidr) => cidrOut.range = null
        /\ ~WellFormedAddr(cidrCase.cand) => cidrOut.candInt = null
        /\ (cidrOut.stage = "matched"
            /\ (~WellFormedCIDR(cidrCase.cidr) \/ ~WellFormedAddr(cidrCase.cand)))
               => ~cidrOut.allowed

\* the four entries the specification names are rejected
NamedEntriesRejected ==
    (cidrCase.cidr \in {"999.1.1.1/24", "1.2.3/24", "1.2.3.4/33", "not.an.ip"}
     /\ cidrOut.stage # "input") => cidrOut.range = null

=============================================================================
